---- MODULE Spec2Model ----
(***************************************************************************)
(* NeoNotate (src/smc.py): the NoteManager note store.  Three in-memory    *)
(* collections (notes, categories, keyword_weights) mirrored to one JSON   *)
(* file.  Strings are sequences of one-character strings, so that strip,   *)
(* split, lower and the substring test are computed as Python computes     *)
(* them.  A Python dict is a sequence of <<key, value>> pairs in insertion *)
(* order.                                                                  *)
(***************************************************************************)
EXTENDS Integers, Sequences, FiniteSets, TLC

VARIABLES
    notes,            \* self.notes: sequence of [content, category]
    categories,       \* self.categories: dict name -> list of keywords
    keyword_weights,  \* self.keyword_weights: dict keyword -> int
    file,             \* the file at self.data_file
    ret,              \* the last call: its name, the message printed, the value returned
    raised,           \* the exception that left the last call uncaught ("none" if none)
    failed_calls      \* history: the number of calls in which a file write failed

vars == <<notes, categories, keyword_weights, file, ret, raised, failed_calls>>

-----------------------------------------------------------------------------
(* Bounds of the model.                                                    *)

MaxNotes == 2

\* The number of calls in which a write to a file fails.
MaxFailedCalls == 1

-----------------------------------------------------------------------------
(* Strings.                                                                *)

Others == <<"O", "t", "h", "e", "r", "s">>

data_file == <<"0", "-", "S", "m", "a", "r", "t", "_", "N", "o", "t", "e", "s", "_",
               "C", "a", "t", "e", "g", "o", "r", "i", "z", "e", "r", "/",
               "n", "o", "t", "e", "s", ".", "j", "s", "o", "n">>

\* Another path, for exports.
out_file == <<"o", "u", "t">>

isspace(c) == c = " "

\* str.lower() on one character (the letters the inputs use).
lower_char(c) ==
    CASE c = "A" -> "a"
      [] c = "B" -> "b"
      [] c = "O" -> "o"
      [] c = "X" -> "x"
      [] c = "W" -> "w"
      [] c = "S" -> "s"
      [] c = "N" -> "n"
      [] c = "C" -> "c"
      [] OTHER -> c

lower(s) == [i \in DOMAIN s |-> lower_char(s[i])]

SetMin(S) == CHOOSE x \in S : \A y \in S : x <= y

SetMax(S) == CHOOSE x \in S : \A y \in S : y <= x

\* str.strip(): without the leading and trailing whitespace.
strip(s) ==
    LET solid == {i \in DOMAIN s : ~isspace(s[i])}
    IN  IF solid = {} THEN <<>> ELSE SubSeq(s, SetMin(solid), SetMax(solid))

\* str.split(): the maximal runs of non-whitespace, in order.
RECURSIVE split(_)
split(s) ==
    IF s = <<>> THEN <<>>
    ELSE IF isspace(Head(s)) THEN split(Tail(s))
    ELSE LET gaps == {i \in DOMAIN s : isspace(s[i])}
             stop == IF gaps = {} THEN Len(s) + 1 ELSE SetMin(gaps)
         IN  <<SubSeq(s, 1, stop - 1)>> \o split(SubSeq(s, stop, Len(s)))

\* Python's `sub in s` on strings.
contains(s, sub) ==
    \E i \in 0..(Len(s) - Len(sub)) : SubSeq(s, i + 1, i + Len(sub)) = sub

\* Python's `x in list`.
in_list(x, l) == \E i \in DOMAIN l : l[i] = x

RECURSIVE select(_, _)
\* A list comprehension's filter: the elements of l whose index is in keep, in order.
select(l, keep) ==
    IF l = <<>> THEN <<>>
    ELSE LET rest == select(Tail(l), {i - 1 : i \in keep \ {1}})
         IN  IF 1 \in keep THEN <<Head(l)>> \o rest ELSE rest

-----------------------------------------------------------------------------
(* Dicts: sequences of <<key, value>>, insertion-ordered.                  *)

has_key(d, k) == \E i \in DOMAIN d : d[i][1] = k

dict_get(d, k, default) ==
    IF has_key(d, k) THEN d[CHOOSE i \in DOMAIN d : d[i][1] = k][2] ELSE default

dict_set(d, k, v) ==
    IF has_key(d, k)
    THEN [i \in DOMAIN d |-> IF d[i][1] = k THEN <<k, v>> ELSE d[i]]
    ELSE Append(d, <<k, v>>)

dict_keys(d) == {d[i][1] : i \in DOMAIN d}

-----------------------------------------------------------------------------
(* JSON documents, as json.dump writes them and json.load reads them.      *)

JString(s) == <<"string", s>>

JNumber(n) == <<"number", n>>

JArray(items) == <<"array", items>>

JObject(members) == <<"object", members>>

\* json.dump of a list of str.
dump_strings(l) == JArray([i \in DOMAIN l |-> JString(l[i])])

\* json.dump of self.notes: an array of {content, category} objects.
dump_notes(ns) ==
    JArray([i \in DOMAIN ns |->
              JObject(<< <<"content", JString(ns[i].content)>>,
                         <<"category", JString(ns[i].category)>> >>)])

\* json.dump of self.categories: an object, name -> array of keywords.
dump_categories(cs) ==
    JObject([i \in DOMAIN cs |-> <<cs[i][1], dump_strings(cs[i][2])>>])

\* json.dump of self.keyword_weights: an object, keyword -> number.
dump_weights(ws) ==
    JObject([i \in DOMAIN ws |-> <<ws[i][1], JNumber(ws[i][2])>>])

\* The document save_data writes: fixed keys notes, categories, keyword_weights.
dump_data(ns, cs, ws) ==
    JObject(<< <<"notes", dump_notes(ns)>>,
               <<"categories", dump_categories(cs)>>,
               <<"keyword_weights", dump_weights(ws)>> >>)

\* json.load of an array of strings.
parse_strings(j) == [i \in DOMAIN j[2] |-> j[2][i][2]]

\* json.load of the notes array: a list of dicts.
parse_notes(j) ==
    [i \in DOMAIN j[2] |->
        [content  |-> dict_get(j[2][i][2], "content", JString(<<>>))[2],
         category |-> dict_get(j[2][i][2], "category", JString(<<>>))[2]]]

\* json.load of the categories object.
parse_categories(j) == [i \in DOMAIN j[2] |-> <<j[2][i][1], parse_strings(j[2][i][2])>>]

\* json.load of the keyword_weights object.
parse_weights(j) == [i \in DOMAIN j[2] |-> <<j[2][i][1], j[2][i][2][2]>>]

-----------------------------------------------------------------------------
(* Files.  open(path, 'w') followed by json.dump either succeeds, fails in *)
(* open (the file is left as it was) or fails while writing (the file is   *)
(* left truncated: no JSON document).  The model keeps the one file the    *)
(* program reads back, the data file: a write to any other path leaves it *)
(* as it is.                                                               *)

Absent == [kind |-> "absent"]

Malformed == [kind |-> "malformed"]

JsonFile(doc) == [kind |-> "json", doc |-> doc]

IO == {"ok", "open_error", "write_error"}

\* The data file after open(path, 'w') and json.dump(doc), given what it was.
write_file(f, path, doc, io) ==
    CASE path # data_file   -> f
      [] io = "ok"          -> JsonFile(doc)
      [] io = "open_error"  -> f
      [] io = "write_error" -> Malformed

-----------------------------------------------------------------------------
(* NoteManager's methods, as functions of the state they read.             *)

\* save_data: the data file after the call.
save_data(f, ns, cs, ws, io) == write_file(f, data_file, dump_data(ns, cs, ws), io)

\* load_data: the three collections after the call, and the message printed.
load_data(f, ns, cs, ws) ==
    LET keep == [notes |-> ns, categories |-> cs, keyword_weights |-> ws]
    IN  CASE f.kind = "absent" ->
               keep @@ [msg |-> "File not found. A new file will be created upon saving."]
          [] f.kind = "malformed" ->
               keep @@ [msg |-> "Error: Invalid file format. Could not load data."]
          [] f.kind = "json" /\ f.doc[1] # "object" ->
               \* data is a list: data.get raises AttributeError, caught below
               keep @@ [msg |-> "Unexpected error"]
          [] OTHER ->
               [notes           |-> parse_notes(dict_get(f.doc[2], "notes", JArray(<<>>))),
                categories      |-> parse_categories(dict_get(f.doc[2], "categories", JObject(<<>>))),
                keyword_weights |-> parse_weights(dict_get(f.doc[2], "keyword_weights", JObject(<<>>))),
                msg             |-> "Data loaded successfully!"]

\* The keyword list add_category keeps: each keyword stripped, the empty ones dropped.
keywords_list(keywords) ==
    LET stripped == [i \in DOMAIN keywords |-> strip(keywords[i])]
    IN  select(stripped, {i \in DOMAIN stripped : stripped[i] # <<>>})

\* An add_category without the test for a name already registered.
add_category_overwriting(cs, category, keywords) ==
    LET name == strip(category)
        kws  == keywords_list(keywords)
    IN  IF name = <<>>
        THEN [categories |-> cs, saved |-> FALSE, msg |-> "Error: Category name cannot be empty."]
        ELSE IF kws = <<>>
        THEN [categories |-> cs, saved |-> FALSE, msg |-> "Error: Keywords cannot be empty."]
        ELSE [categories |-> dict_set(cs, name, kws), saved |-> TRUE,
              msg |-> "Category added successfully"]

\* add_category: the categories after the call, whether it saved, the message.
add_category(cs, category, keywords) ==
    LET name == strip(category)
        kws  == keywords_list(keywords)
    IN  IF name = <<>>
        THEN [categories |-> cs, saved |-> FALSE, msg |-> "Error: Category name cannot be empty."]
        ELSE IF kws = <<>>
        THEN [categories |-> cs, saved |-> FALSE, msg |-> "Error: Keywords cannot be empty."]
        ELSE IF has_key(cs, name)
        THEN [categories |-> cs, saved |-> FALSE, msg |-> "Error: Category already exists."]
        ELSE [categories |-> dict_set(cs, name, kws), saved |-> TRUE,
              msg |-> "Category added successfully"]

\* The words of a note as categorize_notes sees them.
words_of(note_content) == LET w == split(note_content) IN [i \in DOMAIN w |-> lower(w[i])]

\* word in [kw.lower() for kw in keywords]
matches(word, keywords) == in_list(word, [i \in DOMAIN keywords |-> lower(keywords[i])])

RECURSIVE score(_, _, _)
\* scores[category] after the loops of categorize_notes: one addition per matching word.
score(ws, words, keywords) ==
    IF words = <<>> THEN 0
    ELSE (IF matches(Head(words), keywords) THEN dict_get(ws, Head(words), 1) ELSE 0)
         + score(ws, Tail(words), keywords)

\* A max that keeps the last of the keys of maximal score.
max_key_last(scores) ==
    LET best == {i \in DOMAIN scores : \A j \in DOMAIN scores : scores[j][2] <= scores[i][2]}
    IN  scores[SetMax(best)][1]

\* max(scores, key=scores.get): the first key, in insertion order, of maximal score.
max_key(scores) ==
    LET best == {i \in DOMAIN scores : \A j \in DOMAIN scores : scores[j][2] <= scores[i][2]}
    IN  scores[SetMin(best)][1]

\* A categorize_notes that lower-cases the category it returns, as it does the words.
categorize_notes_lowered(cs, ws, note_content) ==
    LET words  == words_of(note_content)
        scores == [i \in DOMAIN cs |-> <<cs[i][1], score(ws, words, cs[i][2])>>]
    IN  IF scores = <<>>
        THEN <<"raise", "ValueError">>
        ELSE LET suitable_category == max_key(scores)
             IN  IF dict_get(scores, suitable_category, 0) = 0
                 THEN <<"return", Others>>
                 ELSE <<"return", lower(suitable_category)>>

\* categorize_notes: <<"return", category>>, or <<"raise", exception>>.
categorize_notes(cs, ws, note_content) ==
    LET words  == words_of(note_content)
        scores == [i \in DOMAIN cs |-> <<cs[i][1], score(ws, words, cs[i][2])>>]
    IN  IF scores = <<>>
        THEN <<"raise", "ValueError">>      \* max() arg is an empty sequence
        ELSE LET suitable_category == max_key(scores)
             IN  IF dict_get(scores, suitable_category, 0) = 0
                 THEN <<"return", Others>>
                 ELSE <<"return", suitable_category>>

RECURSIVE bump_nocase(_, _, _)
\* A loop that tests the words against the keywords up to case, as categorize_notes does.
bump_nocase(ws, words, keywords) ==
    IF words = <<>> THEN ws
    ELSE bump_nocase(IF matches(lower(Head(words)), keywords)
                     THEN dict_set(ws, Head(words), dict_get(ws, Head(words), 0) + 1)
                     ELSE ws,
                     Tail(words), keywords)

RECURSIVE bump_any(_, _, _)
\* A loop that counts every word, keyword or not.
bump_any(ws, words, keywords) ==
    IF words = <<>> THEN ws
    ELSE bump_any(dict_set(ws, Head(words), dict_get(ws, Head(words), 0) + 1),
                  Tail(words), keywords)

RECURSIVE bump(_, _, _)
\* The loop of update_keyword_weights over the words.
bump(ws, words, keywords) ==
    IF words = <<>> THEN ws
    ELSE bump(IF in_list(Head(words), keywords)
              THEN dict_set(ws, Head(words), dict_get(ws, Head(words), 0) + 1)
              ELSE ws,
              Tail(words), keywords)

\* update_keyword_weights: the weights after the call, whether it saved, the message.
update_keyword_weights(cs, ws, words, category) ==
    IF ~has_key(cs, category)
    THEN [keyword_weights |-> ws, saved |-> FALSE, msg |-> "Error: Category does not exist."]
    ELSE [keyword_weights |-> bump(ws, words, dict_get(cs, category, <<>>)),
          saved |-> TRUE, msg |-> ""]

\* A search_notes that compares without lower-casing.
search_notes_cased(ns, keyword) ==
    LET k == strip(keyword)
    IN  IF k = <<>>
        THEN [results |-> <<>>, msg |-> "Error: Keyword cannot be empty."]
        ELSE LET results == select(ns, {i \in DOMAIN ns : contains(ns[i].content, k)})
             IN  [results |-> results,
                  msg |-> IF results = <<>> THEN "No notes found containing the keyword" ELSE ""]

\* search_notes: the list returned and the message.
search_notes(ns, keyword) ==
    LET k == strip(keyword)
    IN  IF k = <<>>
        THEN [results |-> <<>>, msg |-> "Error: Keyword cannot be empty."]
        ELSE LET results == select(ns, {i \in DOMAIN ns :
                                          contains(lower(ns[i].content), lower(k))})
             IN  [results |-> results,
                  msg |-> IF results = <<>> THEN "No notes found containing the keyword" ELSE ""]

\* export_notes: the data file after the call and the message.
export_notes(f, ns, filename, io) ==
    LET path == strip(filename)
    IN  IF path = <<>>
        THEN [file |-> f, msg |-> "Error: Filename cannot be empty."]
        ELSE [file |-> write_file(f, path, dump_notes(ns), io),
              msg |-> IF io = "ok" THEN "Notes exported successfully" ELSE "Error exporting notes"]

-----------------------------------------------------------------------------
(* What a call leaves behind: the three collections, the data file, the       *)
(* exception it raised to its caller ("none" if it returned), the message  *)
(* it printed, the value it returned, and whether a file write failed.     *)

Outcome(ns, cs, ws, f, exc, msg, val, failed) ==
    [notes |-> ns, categories |-> cs, keyword_weights |-> ws, file |-> f,
     raised |-> exc, msg |-> msg, val |-> val, failed |-> failed]

call_load_data ==
    LET r == load_data(file, notes, categories, keyword_weights)
    IN  Outcome(r.notes, r.categories, r.keyword_weights, file, "none", r.msg, <<>>, FALSE)

call_save_data(io) ==
    Outcome(notes, categories, keyword_weights,
            save_data(file, notes, categories, keyword_weights, io), "none",
            IF io = "ok" THEN "Data saved successfully!" ELSE "Error saving data",
            <<>>, io # "ok")

call_add_category(category, keywords, io) ==
    LET r == add_category(categories, category, keywords)
    IN  Outcome(notes, r.categories, keyword_weights,
                IF r.saved THEN save_data(file, notes, r.categories, keyword_weights, io)
                           ELSE file,
                "none", r.msg, <<>>, r.saved /\ io # "ok")

\* add_note on a store holding ns, cs, ws over the data file f.  io1 is the
\* outcome of the save inside update_keyword_weights (when it saves), io2 of
\* add_note's own save.
add_note(f, ns, cs, ws, note_content, io1, io2) ==
    LET content == strip(note_content)
    IN  IF content = <<>>
        THEN Outcome(ns, cs, ws, f, "none", "Error: Note content cannot be empty.", <<>>, FALSE)
        ELSE LET r == categorize_notes(cs, ws, content)
             IN  IF r[1] = "raise"
                 THEN Outcome(ns, cs, ws, f, r[2], "", <<>>, FALSE)
                 ELSE LET ns1 == Append(ns, [content |-> content, category |-> r[2]])
                          u   == update_keyword_weights(cs, ws, split(content), r[2])
                          f1  == IF u.saved
                                 THEN save_data(f, ns1, cs, u.keyword_weights, io1)
                                 ELSE f
                      IN  Outcome(ns1, cs, u.keyword_weights,
                                  save_data(f1, ns1, cs, u.keyword_weights, io2),
                                  "none", "Note added successfully", <<>>,
                                  (u.saved /\ io1 # "ok") \/ io2 # "ok")

call_add_note(note_content, io1, io2) ==
    add_note(file, notes, categories, keyword_weights, note_content, io1, io2)

call_categorize_notes(note_content) ==
    LET r == categorize_notes(categories, keyword_weights, note_content)
    IN  IF r[1] = "raise"
        THEN Outcome(notes, categories, keyword_weights, file, r[2], "", <<>>, FALSE)
        ELSE Outcome(notes, categories, keyword_weights, file, "none", "", r[2], FALSE)

call_view_notes ==
    Outcome(notes, categories, keyword_weights, file, "none",
            IF notes = <<>> THEN "No notes available to view."
                            ELSE "--- Viewing All Notes ---",
            <<>>, FALSE)

call_search_notes(keyword) ==
    LET r == search_notes(notes, keyword)
    IN  Outcome(notes, categories, keyword_weights, file, "none", r.msg, r.results, FALSE)

call_export_notes(filename, io) ==
    LET r == export_notes(file, notes, filename, io)
    IN  Outcome(notes, categories, keyword_weights, r.file, "none", r.msg, <<>>,
                strip(filename) # <<>> /\ io # "ok")

-----------------------------------------------------------------------------
(* The inputs the calls are given.                                         *)

CategoryInputs == { <<" ">>, <<" ", "X">>, Others }

KeywordsInputs ==
    { << <<" ">>, <<>> >>,
      << <<" ", "A">>, <<>> >>,
      << <<"b">>, <<"c", " ">> >> }

NoteInputs == { <<" ">>, <<"A">>, <<" ", "a", " ", "b">> }

SearchInputs == { <<" ">>, <<"A", " ">>, <<"b">> }

ExportInputs == { <<" ">>, out_file, <<" ">> \o data_file }

\* The outcomes a write can still have.
Outcomes == IF failed_calls < MaxFailedCalls THEN IO ELSE {"ok"}

-----------------------------------------------------------------------------
(* The state machine: one action per call of a method.  An exception that  *)
(* reaches the caller ends the process: menu() catches none.               *)

Init ==
    /\ notes = <<>>
    /\ categories = <<>>
    /\ keyword_weights = <<>>
    /\ file = Absent
    /\ ret = [op |-> "__init__", msg |-> "", val |-> <<>>]
    /\ raised = "none"
    /\ failed_calls = 0

\* The call op ends as r says.
Call(op, r) ==
    /\ raised = "none"
    /\ Len(r.notes) <= MaxNotes
    /\ r.failed => failed_calls < MaxFailedCalls
    /\ notes' = r.notes
    /\ categories' = r.categories
    /\ keyword_weights' = r.keyword_weights
    /\ file' = r.file
    /\ raised' = r.raised
    /\ ret' = IF r.raised = "none" THEN [op |-> op, msg |-> r.msg, val |-> r.val] ELSE ret
    /\ failed_calls' = failed_calls + (IF r.failed THEN 1 ELSE 0)

LoadData == Call("load_data", call_load_data)

SaveData(io) == Call("save_data", call_save_data(io))

AddCategory(category, keywords, io) ==
    Call("add_category", call_add_category(category, keywords, io))

AddNote(note_content, io1, io2) == Call("add_note", call_add_note(note_content, io1, io2))

CategorizeNotes(note_content) ==
    Call("categorize_notes", call_categorize_notes(note_content))

ViewNotes == Call("view_notes", call_view_notes)

SearchNotes(keyword) == Call("search_notes", call_search_notes(keyword))

ExportNotes(filename, io) == Call("export_notes", call_export_notes(filename, io))

Next ==
    \/ LoadData
    \/ \E io \in Outcomes : SaveData(io)
    \/ \E category \in CategoryInputs, keywords \in KeywordsInputs, io \in Outcomes :
          AddCategory(category, keywords, io)
    \/ \E note_content \in NoteInputs, io1, io2 \in Outcomes :
          AddNote(note_content, io1, io2)
    \/ \E note_content \in NoteInputs : CategorizeNotes(note_content)
    \/ ViewNotes
    \/ \E keyword \in SearchInputs : SearchNotes(keyword)
    \/ \E filename \in ExportInputs, io \in Outcomes : ExportNotes(filename, io)

Spec == Init /\ [][Next]_vars

-----------------------------------------------------------------------------
(* What the claims speak of.                                               *)

\* The whitespace-separated tokens of a text, as a set of positions and the list.
tokens(text) == split(strip(text))

\* Token t and keyword k are the same up to case.
same_nocase(t, k) == lower(t) = lower(k)

\* Some keyword of the i-th category is t up to case.
token_matches(t, i) ==
    \E n \in DOMAIN categories[i][2] : same_nocase(t, categories[i][2][n])

\* The score categorize gives the i-th category for a text.
score_of(i, text) == score(keyword_weights, words_of(text), categories[i][2])

\* The number of tokens of the list that are exactly k.
count(toks, k) == Cardinality({n \in DOMAIN toks : toks[n] = k})

\* The n-th smallest member of a set of numbers.
nth(S, n) == CHOOSE i \in S : Cardinality({j \in S : j <= i}) = n

\* All the keywords of all the registered categories.
all_keywords == UNION {{categories[i][2][n] : n \in DOMAIN categories[i][2]} : i \in DOMAIN categories}

\* A call left the three collections and the files as they are.
unchanged(r) ==
    /\ r.raised = "none"
    /\ r.notes = notes
    /\ r.categories = categories
    /\ r.keyword_weights = keyword_weights
    /\ r.file = file

-----------------------------------------------------------------------------
\* C1: every public operation, called in any order with any input, returns
\* normally to its caller: no call ends in an uncaught exception.
C1_EveryCallReturns == raised = "none"

\* No token of the text is, up to case, a keyword of a registered category.
no_token_matches(text) ==
    \A i \in DOMAIN categories, n \in DOMAIN tokens(text) : ~token_matches(tokens(text)[n], i)

\* C2: for every store state and every non-empty note content none of whose
\* tokens matches a keyword of a registered category, categorize returns
\* "Others", and addNote appends the note under "Others" and leaves the
\* keyword weights as they are.
C2_NoMatchIsOthers ==
    \A content \in NoteInputs :
        (strip(content) # <<>> /\ no_token_matches(content)) =>
            LET r == call_add_note(content, "ok", "ok")
            IN  /\ categorize_notes(categories, keyword_weights, content) = <<"return", Others>>
                /\ r.raised = "none"
                /\ r.notes = Append(notes, [content |-> strip(content), category |-> Others])
                /\ r.keyword_weights = keyword_weights

\* Some token of the text matches a keyword of the i-th category and of no other.
token_of_only(text, i) ==
    \E n \in DOMAIN tokens(text) :
        /\ token_matches(tokens(text)[n], i)
        /\ \A j \in DOMAIN categories \ {i} : ~token_matches(tokens(text)[n], j)

\* C3, as stated: if some token matches a keyword of category C and of no other
\* category, and no other category's score is strictly higher than C's, then
\* categorize returns C.
C3_NoHigherScoreWins ==
    \A content \in NoteInputs, i \in DOMAIN categories :
        (/\ token_of_only(content, i)
         /\ \A j \in DOMAIN categories : score_of(j, content) <= score_of(i, content)) =>
            categorize_notes(categories, keyword_weights, content) = <<"return", categories[i][1]>>

\* C3, amended: ... and, besides, every category registered before C has a score
\* strictly lower than C's; then categorize returns C.
C3_FirstOfTheBestWins ==
    \A content \in NoteInputs, i \in DOMAIN categories :
        (/\ token_of_only(content, i)
         /\ \A j \in DOMAIN categories : score_of(j, content) <= score_of(i, content)
         /\ \A j \in DOMAIN categories : j < i => score_of(j, content) < score_of(i, content)) =>
            categorize_notes(categories, keyword_weights, content) = <<"return", categories[i][1]>>

\* A tie was decided for the category registered first: categorize has just
\* returned a category with a token of its own whose score a later category equals.
C3_Witness ==
    /\ ret.op = "categorize_notes"
    /\ \E content \in NoteInputs, i \in DOMAIN categories :
           /\ token_of_only(content, i)
           /\ \A j \in DOMAIN categories : score_of(j, content) <= score_of(i, content)
           /\ \E j \in DOMAIN categories : j > i /\ score_of(j, content) = score_of(i, content)
           /\ ret.val = categories[i][1]

\* C4: the category of every stored note is the name of a registered category
\* or the sentinel "Others".
C4_NoteCategoryRegistered ==
    \A i \in DOMAIN notes :
        notes[i].category = Others \/ has_key(categories, notes[i].category)

\* After a load, the store holds a note filed under a registered category and a
\* note filed under "Others" while "Others" is not registered.
C4_Witness ==
    /\ ret.op = "load_data"
    /\ ret.msg = "Data loaded successfully!"
    /\ ~has_key(categories, Others)
    /\ \E i, j \in DOMAIN notes :
           /\ notes[i].category = Others
           /\ notes[j].category # Others

\* C5: a call rejected by validation changes nothing: addCategory with an empty
\* trimmed name, with no keyword left after trimming, or with a name already
\* registered; addNote with empty trimmed content; searchNotes with an empty
\* trimmed keyword; exportNotes with an empty trimmed path.  The notes, the
\* categories (so the first keyword list of a name added twice), the weights and
\* the data file are as before.
C5_RejectedCallChangesNothing ==
    /\ \A category \in CategoryInputs, keywords \in KeywordsInputs :
           (\/ strip(category) = <<>>
            \/ \A n \in DOMAIN keywords : strip(keywords[n]) = <<>>
            \/ strip(category) \in dict_keys(categories)) =>
               \A io \in IO : unchanged(call_add_category(category, keywords, io))
    /\ \A content \in NoteInputs :
           strip(content) = <<>> =>
               \A io1, io2 \in IO : unchanged(call_add_note(content, io1, io2))
    /\ \A keyword \in SearchInputs :
           strip(keyword) = <<>> =>
               unchanged(call_search_notes(keyword)) /\ call_search_notes(keyword).val = <<>>
    /\ \A filename \in ExportInputs :
           strip(filename) = <<>> =>
               \A io \in IO : unchanged(call_export_notes(filename, io))

\* A name already registered has just been refused, in a store that holds notes.
C5_Witness ==
    /\ ret.op = "add_category"
    /\ ret.msg = "Error: Category already exists."
    /\ notes # <<>>

\* C6: as long as every file write has succeeded, once a category or a note has
\* been added, loading the data file into a fresh store gives the notes, the
\* categories and the keyword weights held in memory, whatever the paths
\* exportNotes was given.
C6_FileMirrorsStore ==
    (failed_calls = 0 /\ (categories # <<>> \/ notes # <<>>)) =>
        LET fresh == load_data(file, <<>>, <<>>, <<>>)
        IN  /\ fresh.notes = notes
            /\ fresh.categories = categories
            /\ fresh.keyword_weights = keyword_weights

\* The scenario of C7, in the store's own strings.
Work == <<"W", "o", "r", "k">>

meeting == <<"m", "e", "e", "t", "i", "n", "g">>

deadline == <<"d", "e", "a", "d", "l", "i", "n", "e">>

schedule_note ==
    <<"S", "c", "h", "e", "d", "u", "l", "e", " ", "a", " ", "m", "e", "e", "t", "i", "n", "g",
      " ", "t", "o", "m", "o", "r", "r", "o", "w">>

another_note ==
    <<"A", "n", "o", "t", "h", "e", "r", " ", "m", "e", "e", "t", "i", "n", "g", " ",
      "t", "o", "d", "a", "y">>

\* With categories {Work: [meeting, deadline]} and no weights, the two notes are
\* filed under Work and leave the weight of "meeting" at 1, then at 2.
scenario_holds ==
    LET cs0 == << <<Work, <<meeting, deadline>> >> >>
        r1  == add_note(Absent, <<>>, cs0, <<>>, schedule_note, "ok", "ok")
        r2  == add_note(r1.file, r1.notes, cs0, r1.keyword_weights, another_note, "ok", "ok")
    IN  /\ r1.raised = "none" /\ r2.raised = "none"
        /\ r1.notes = << [content |-> schedule_note, category |-> Work] >>
        /\ r1.keyword_weights = << <<meeting, 1>> >>
        /\ r2.notes = << [content |-> schedule_note, category |-> Work],
                         [content |-> another_note, category |-> Work] >>
        /\ r2.keyword_weights = << <<meeting, 2>> >>

\* The weight recorded for k, 0 when there is none.
weight_in(ws, k) == dict_get(ws, k, 0)

\* An add_note call has just filed a note under a registered category.
filed_under_registered ==
    /\ raised' = "none"
    /\ ret'.op = "add_note"
    /\ Len(notes') = Len(notes) + 1
    /\ has_key(categories, notes'[Len(notes')].category)

\* C7: when addNote files a note under a registered category C, the weight of
\* each keyword k of C grows by the number of raw tokens of the note that are
\* exactly k (from 0 if k had no weight), and every other weight is as before;
\* so the two notes of the scenario are filed under Work and leave the weight of
\* "meeting" at 1 and then at 2.
C7_WeightsGrowByTokenCount ==
    /\ scenario_holds
    /\ [][filed_under_registered =>
            LET note == notes'[Len(notes')]
                kws  == dict_get(categories, note.category, <<>>)
                toks == tokens(note.content)
                grow(k) == IF in_list(k, kws) THEN count(toks, k) ELSE 0
            IN  \A k \in dict_keys(keyword_weights) \cup dict_keys(keyword_weights')
                           \cup all_keywords \cup {toks[n] : n \in DOMAIN toks} :
                    /\ weight_in(keyword_weights', k) = weight_in(keyword_weights, k) + grow(k)
                    /\ Cardinality({n \in DOMAIN keyword_weights' : keyword_weights'[n][1] = k})
                         = IF weight_in(keyword_weights, k) + grow(k) > 0 THEN 1 ELSE 0
         ]_vars

\* Two notes have been filed under the same registered category, the second just
\* now, and a keyword's weight stands at 2.
C7_Witness ==
    /\ ret.op = "add_note"
    /\ Len(notes) = 2
    /\ notes[1].category = notes[2].category
    /\ has_key(categories, notes[2].category)
    /\ \E k \in all_keywords : weight_in(keyword_weights, k) = 2

\* k occurs in text, letters compared up to case.
occurs_nocase(text, k) ==
    \E i \in 0..(Len(text) - Len(k)) :
        \A j \in 1..Len(k) : lower_char(text[i + j]) = lower_char(k[j])

\* C8: for a keyword whose trimmed form is not empty, searchNotes returns the
\* stored notes whose content contains the trimmed keyword as a case-insensitive
\* substring, in insertion order, and changes nothing.
C8_SearchIsCaseInsensitive ==
    \A keyword \in SearchInputs :
        strip(keyword) # <<>> =>
            LET r    == call_search_notes(keyword)
                hits == {i \in DOMAIN notes : occurs_nocase(notes[i].content, strip(keyword))}
            IN  /\ unchanged(r)
                /\ Len(r.val) = Cardinality(hits)
                /\ \A n \in DOMAIN r.val : r.val[n] = notes[nth(hits, n)]

\* A search has just returned the second of two notes and not the first.
C8_Witness ==
    /\ ret.op = "search_notes"
    /\ Len(notes) = 2
    /\ ret.val = <<notes[2]>>
    /\ notes[1] # notes[2]

\* The keyword of the list that token t matches up to case (the first, if several).
matched_keyword(t, kws) == kws[SetMin({n \in DOMAIN kws : same_nocase(t, kws[n])})]

RECURSIVE recorded_score(_, _)
\* The sum, over the tokens that match a keyword of the list up to case, of the
\* weight recorded for the matched keyword (1 when none is recorded).
recorded_score(toks, kws) ==
    IF toks = <<>> THEN 0
    ELSE (IF \E n \in DOMAIN kws : same_nocase(Head(toks), kws[n])
          THEN dict_get(keyword_weights, matched_keyword(Head(toks), kws), 1)
          ELSE 0)
         + recorded_score(Tail(toks), kws)

\* C9: the score categorize gives a category is the sum, over the note's tokens
\* that match one of its keywords up to case, of the weight updateKeywordWeights
\* has recorded for the matched keyword (1 if none), for keywords registered with
\* upper-case letters as for the others.
C9_ScoreIsRecordedWeight ==
    \A content \in NoteInputs, i \in DOMAIN categories :
        score_of(i, content) = recorded_score(tokens(content), categories[i][2])

\* The step removes no key of keyword_weights and lowers no weight.
no_loss ==
    \A k \in dict_keys(keyword_weights) :
        /\ has_key(keyword_weights', k)
        /\ weight_in(keyword_weights', k) >= weight_in(keyword_weights, k)

\* Every key of keyword_weights is a keyword of a registered category, every
\* weight an integer of at least 1, and a category's score is 0 exactly when no
\* token of the note matches one of its keywords.
weights_well_formed ==
    /\ dict_keys(keyword_weights) \subseteq all_keywords
    /\ \A n \in DOMAIN keyword_weights :
           keyword_weights[n][2] \in Nat /\ keyword_weights[n][2] >= 1
    /\ \A content \in NoteInputs, i \in DOMAIN categories :
           score_of(i, content) = 0 <=>
               \A n \in DOMAIN tokens(content) : ~token_matches(tokens(content)[n], i)

\* C10, as stated: every key of keyword_weights is a keyword of a registered
\* category, every weight is an integer of at least 1, no operation removes a key
\* or lowers a weight, and a category's score is 0 exactly when no token matches.
C10_WeightsNeverShrink == []weights_well_formed /\ [][no_loss]_vars

\* C10, amended: the same, of every operation but load.
C10_WeightsShrinkOnlyByLoad == []weights_well_formed /\ [][LoadData \/ no_loss]_vars

\* Two keywords carry a weight, and a call other than load has just left them so.
C10_Witness ==
    /\ Len(keyword_weights) = 2
    /\ ret.op = "add_category"

====
